---- MODULE Spec2Model ----
(***************************************************************************)
(* Model of pyemma/coordinates/transform/transformer.py: the Transformer   *)
(* pipeline stage (data_producer association, estimation flag, fit /       *)
(* estimate / parametrize / get_output) and the TransformerIterator that   *)
(* maps the chunks of an upstream iterator.                                *)
(*                                                                         *)
(* Every public call is one action.  The body of a call is a pure operator *)
(* over a "world" record w that threads the mutable fields through the     *)
(* statements of the method in source order; an exception is the field     *)
(* w.err, after which the remaining statements are skipped.                *)
(***************************************************************************)
EXTENDS Integers, Sequences, FiniteSets, TLC

VARIABLES
    _data_producer,   \* Transformer._data_producer, per stage
    _estimated,       \* Transformer._estimated, per stage
    _chunksize,       \* Iterable._chunksize, per stage and in-memory producer
    wraps,            \* DataInMemory object -> the array / list it wraps
    in_memory,        \* Iterable.in_memory, per stage (configuration)
    hooks,            \* which of _param_init / _param_finish the class defines
    nframes,          \* number of frames (rows) of each raw 2-D array
    eos_mode,         \* how the in-memory chunk iterator signals exhaustion
    iter,             \* the iterator the caller currently holds (or none)
    params,           \* the (skip, stride, chunk) that iterator was asked for
    delivered,        \* chunks that iterator has returned so far
    faults,           \* how often a mapping raised under that iterator
    lost,             \* (trajectory, row) of the frames pulled for those mappings
    call              \* observation of the last call: arguments, pre-state, outcome

vars == <<_data_producer, _estimated, _chunksize, wraps, in_memory, hooks, nframes,
          eos_mode, iter, params, delivered, faults, lost, call>>

----------------------------------------------------------------------------
(* Bounds *)

\* DataInMemory objects that fit / estimate may allocate and keep alive
MaxFresh == 5
\* largest number of rows of a raw array
MaxLen == 3
\* largest skip, stride and chunksize handed to an iterator
MaxSkip == 1
MaxStride == 2
MaxChunk == 2
\* estimation passes one call can start (get_output -> estimate ->
\* _map_to_memory -> get_output -> estimate)
MaxPasses == 2
\* mapping failures injected while one iterator is pulled
MaxFaults == 1
\* largest chunksize a caller sets
MaxSize == 2

----------------------------------------------------------------------------
(* Objects.  A reference is a record; identity ("is") is equality of refs. *)

None == [k |-> "NoneType", i |-> 0]
Stage(i) == [k |-> "Transformer", i |-> i]
Mem(i) == [k |-> "DataInMemory", i |-> i]
Arr(i) == [k |-> "ndarray", i |-> i]

T1 == Stage(1)
T2 == Stage(2)
Stages == {T1, T2}
\* producers the caller built beforehand and keeps references to
D1 == Mem(1)
D2 == Mem(2)
Given == {D1, D2}
Fresh == {Mem(i) : i \in 3..(2 + MaxFresh)}
Mems == Given \cup Fresh
\* raw inputs: two 2-D arrays, a list of both, and something that is no array
A1 == Arr(1)
A2 == Arr(2)
Arrays == {A1, A2}
L1 == [k |-> "list", i |-> 1]
Bad == [k |-> "str", i |-> 1]
\* inputs of the eager mapping: a 1-D and a 3-D array, a tuple of 2-D arrays,
\* a list holding the 1-D array, an empty list
V1 == Arr(3)
C3 == Arr(4)
Tp == [k |-> "tuple", i |-> 1]
LV == [k |-> "list", i |-> 2]
L0 == [k |-> "list", i |-> 0]
ListItems(X) ==
    CASE X = L1 -> <<A1, A2>>
      [] X = Tp -> <<A2, A1, A2>>
      [] X = LV -> <<A1, V1>>
      [] X = L0 -> <<>>
      [] OTHER -> <<X>>
\* X.ndim
ndim(X) == IF X = V1 THEN 1 ELSE IF X = C3 THEN 3 ELSE 2

isinstance_Iterable(X) == X.k \in {"Transformer", "DataInMemory"}
isinstance_Transformer(X) == X.k = "Transformer"
isinstance_ndarray(X) == X.k = "ndarray"

Min(a, b) == IF a < b THEN a ELSE b

----------------------------------------------------------------------------
(* The world record and its helpers *)

World(pinned) ==
    [dp |-> _data_producer, est |-> _estimated, cs |-> _chunksize, wraps |-> wraps,
     active |-> [t \in Stages |-> FALSE], pinned |-> pinned,
     new |-> None, err |-> "none", trace |-> <<>>, passes |-> 0, out |-> <<>>]

Raise(w, e) == [w EXCEPT !.err = e]
Ok(w) == w.err = "none"

Ev(w, e, t, x) == [w EXCEPT !.trace = Append(@, [e |-> e, t |-> t, x |-> x, est |-> w.est[t]])]

Live(w) == Given \cup {w.dp[t] : t \in Stages} \cup w.pinned

\* Transformer.__init__(chunksize=1000)
DefaultChunksize == 1000
\* DataInMemory.__init__(data, chunksize=5000)
DataInMemoryChunksize == 5000

\* DataInMemory(data, chunksize): a new object, distinct from every live one
DataInMemory(w, X, c) ==
    LET free == {m \in Fresh : m \notin Live(w)}
        ref == CHOOSE m \in free : \A n \in free : m.i <= n.i
    IN [w EXCEPT !.wraps[ref] = X, !.cs[ref] = c, !.new = ref]

\* objects nobody references any more are dropped from the heap
Collect(w) == [m \in Mems |-> IF m \in Live(w) THEN w.wraps[m] ELSE None]
CollectSizes(w) ==
    [x \in Stages \cup Mems |->
        IF x \in Fresh /\ x \notin Live(w) THEN DataInMemoryChunksize ELSE w.cs[x]]

----------------------------------------------------------------------------
(* Transformer.data_producer setter *)

\* a setter that forgets the identity test
data_producer_setter_always_resets(w, t, dp) ==
    [w EXCEPT !.est[t] = FALSE, !.dp[t] = dp]

data_producer_setter(w, t, dp) ==
    LET w1 == IF dp # w.dp[t] THEN [w EXCEPT !.est[t] = FALSE] ELSE w
    IN [w1 EXCEPT !.dp[t] = dp]

\* Transformer.chunksize read: the def of lines 85-88 has its decorator
\* commented out and is replaced by the property of line 90, whose getter is
\* Iterable.chunksize's: the object's own chunksize
chunksize_getter(w, x) == w.cs[x]

RECURSIVE chunksize_setter(_, _, _)
\* Transformer.chunksize = size, size given in halves (5 is 2.5): the test
\* is "not size >= 0", the value stored int(size); the producer's own setter
\* runs, which for a producer that is a stage is this setter again
chunksize_setter(w, x, halves) ==
    IF x = None THEN Raise(w, "AttributeError")
    ELSE IF x.k = "DataInMemory" THEN [w EXCEPT !.cs[x] = halves \div 2]
    ELSE IF ~(halves >= 0) THEN Raise(w, "ValueError")
    ELSE chunksize_setter(w, w.dp[x], 2 * (halves \div 2))

(* _to_data_producer *)
_to_data_producer(w, X) ==
    IF isinstance_Transformer(X) THEN [w EXCEPT !.new = X]
    ELSE DataInMemory(w, X, DataInMemoryChunksize)

----------------------------------------------------------------------------
(* Data and the in-memory chunk iterator (the upstream end of every chain) *)

\* trajectory lengths of the dataset a DataInMemory object wraps
Lengths(w, m) ==
    LET items == ListItems(w.wraps[m])
    IN [j \in 1..Len(items) |-> nframes[items[j]]]

\* a frame: its trajectory, its row, and the stages that mapped it so far
Frame(itraj, idx) == [traj |-> itraj, idx |-> idx, by |-> <<>>]

\* rows from, from+stride, ... below to, of trajectory itraj
Strided(itraj, from, to, stride) ==
    LET n == IF to > from THEN (to - from + stride - 1) \div stride ELSE 0
    IN [j \in 1..n |-> Frame(itraj, from + (j - 1) * stride)]

Result(it, sig, chunk, eos, ev) ==
    [it |-> it, sig |-> sig, chunk |-> chunk, eos |-> eos, ev |-> ev]

\* the cursor object of the iterator over m; its content is the iterator's
\* itraj and pos
IteratorState(m) == [k |-> "IteratorState", of |-> m]

DataInMemoryIterator(w, m, p) ==
    [kind |-> "mem", src |-> m, p |-> p, lens |-> Lengths(w, m),
     itraj |-> 1, pos |-> p.skip, closed |-> FALSE, state |-> IteratorState(m)]

RECURSIVE ChunksOf(_, _, _)
\* chunks the trajectories j.. of an iterator take
ChunksOf(it, j, acc) ==
    IF j > Len(it.lens) THEN acc
    ELSE LET n == IF it.lens[j] > it.p.skip
                  THEN (it.lens[j] - it.p.skip + it.p.stride - 1) \div it.p.stride
                  ELSE 0
             c == IF it.p.chunk = 0 \/ n = 0 THEN 1
                  ELSE (n + it.p.chunk - 1) \div it.p.chunk
         IN ChunksOf(it, j + 1, acc + c)

\* DataInMemoryIterator._n_chunks
DataInMemoryIterator_n_chunks(it) == ChunksOf(it, 1, 0)

\* one trajectory at a time; chunk = 0 hands out the whole trajectory; past
\* the last trajectory the iterator signals exhaustion, by raising or by an
\* empty result
DataInMemoryIterator_next_chunk(it) ==
    IF it.itraj > Len(it.lens)
    THEN IF eos_mode = "raise"
         THEN Result(it, "StopIteration", <<>>, TRUE, <<>>)
         ELSE Result(it, "chunk", <<>>, TRUE, <<>>)
    ELSE LET L == it.lens[it.itraj]
             ub == IF it.p.chunk = 0 THEN L
                   ELSE Min(it.pos + it.p.chunk * it.p.stride, L)
             X == Strided(it.itraj, it.pos, ub, it.p.stride)
             it1 == IF ub >= L
                    THEN [it EXCEPT !.itraj = @ + 1, !.pos = it.p.skip]
                    ELSE [it EXCEPT !.pos = ub]
         IN Result(it1, "chunk", X, FALSE, <<>>)

----------------------------------------------------------------------------
(* Transformer._transform_array (abstract): a concrete stage maps every    *)
(* frame of the array, keeping the number of rows                          *)

_transform_array(t, X) == [j \in 1..Len(X) |-> [X[j] EXCEPT !.by = Append(@, t)]]

----------------------------------------------------------------------------
(* Transformer._create_iterator and TransformerIterator *)

RECURSIVE _create_iterator(_, _, _)

\* an iterator that asks its upstream for every frame, whatever the stride
TransformerIterator_ignores_stride(w, t, p) ==
    IF w.dp[t] = None THEN [kind |-> "AttributeError"]
    ELSE LET up == _create_iterator(w, w.dp[t], [p EXCEPT !.stride = 1])
         IN IF up.kind = "AttributeError" THEN up
            ELSE [kind |-> "tr", src |-> t, _it |-> up, state |-> up.state]

\* TransformerIterator.__init__: the upstream iterator comes from the
\* stage's data producer; a stage without producer has none to ask
TransformerIterator(w, t, p) ==
    IF w.dp[t] = None THEN [kind |-> "AttributeError"]
    ELSE LET up == _create_iterator(w, w.dp[t], p)
         IN IF up.kind = "AttributeError" THEN up
            ELSE [kind |-> "tr", src |-> t, _it |-> up, state |-> up.state]

_create_iterator(w, src, p) ==
    IF src.k = "DataInMemory" THEN DataInMemoryIterator(w, src, p)
    ELSE TransformerIterator(w, src, p)

\* what the mapping was applied to
Sentinel == [k |-> "sentinel", i |-> 0]
Chunk(X) == [k |-> "chunk", i |-> Len(X)]

RECURSIVE next_chunk(_, _, _)

\* a next_chunk that hands the pulled chunk back when the mapping raises
TransformerIterator_next_chunk_keeps_failed(it, est, fail) ==
    LET r == next_chunk(it._it, est, fail)
        it1 == [it EXCEPT !._it = r.it]
    IN IF r.sig = "MapError" THEN [r EXCEPT !.it = it1]
       ELSE IF r.sig # "chunk" THEN [r EXCEPT !.it = it1]
       ELSE IF fail = it.src THEN Result(it, "MapError", <<>>, FALSE, r.ev)
       ELSE Result(it1, "chunk", _transform_array(it.src, r.chunk), r.eos, r.ev)

\* a next_chunk that pulls the upstream a second time when the first chunk
\* came through
TransformerIterator_next_chunk_pulls_twice(it, est, fail) ==
    LET r0 == next_chunk(it._it, est, fail)
        r == IF r0.sig = "chunk" /\ ~r0.eos THEN next_chunk(r0.it, est, fail) ELSE r0
        it1 == [it EXCEPT !._it = r.it]
    IN IF r.sig # "chunk" THEN [r EXCEPT !.it = it1]
       ELSE Result(it1, "chunk", _transform_array(it.src, r.chunk), r.eos, r.ev)

\* a next_chunk that answers the upstream's exhaustion signal with an empty
\* chunk of its own
TransformerIterator_next_chunk_swallows_eos(it, est, fail) ==
    LET r == next_chunk(it._it, est, fail)
        it1 == [it EXCEPT !._it = r.it]
    IN IF r.sig = "StopIteration" THEN Result(it1, "chunk", <<>>, FALSE, r.ev)
       ELSE IF r.sig # "chunk" THEN [r EXCEPT !.it = it1]
       ELSE Result(it1, "chunk", _transform_array(it.src, r.chunk), r.eos, r.ev)

\* TransformerIterator.next_chunk: X = self._it.next_chunk(); return
\* self._data_source._transform_array(X).  est is the stages' _estimated at
\* the time of the call, fail the stage whose mapping raises (or None)
TransformerIterator_next_chunk(it, est, fail) ==
    LET r == next_chunk(it._it, est, fail)
        it1 == [it EXCEPT !._it = r.it]
        ev == Append(r.ev, [e |-> "_transform_array", t |-> it.src,
                            x |-> IF r.eos THEN Sentinel ELSE Chunk(r.chunk),
                            est |-> est[it.src]])
    IN IF r.sig # "chunk" THEN [r EXCEPT !.it = it1]
       ELSE IF fail = it.src THEN Result(it1, "MapError", <<>>, FALSE, ev)
       ELSE Result(it1, "chunk", _transform_array(it.src, r.chunk), r.eos, ev)

next_chunk(it, est, fail) ==
    IF it.kind = "mem" THEN DataInMemoryIterator_next_chunk(it)
    ELSE TransformerIterator_next_chunk(it, est, fail)

RECURSIVE Root(_)
\* the in-memory object at the upstream end of an iterator
Root(it) == IF it.kind = "mem" THEN it.src ELSE Root(it._it)

RECURSIVE Root_it(_)
\* the iterator at the upstream end
Root_it(it) == IF it.kind = "mem" THEN it ELSE Root_it(it._it)

RECURSIVE IterStages(_)
\* the stages whose mapping an iterator applies
IterStages(it) == IF it.kind = "mem" THEN {} ELSE {it.src} \cup IterStages(it._it)

RECURSIVE current_trajindex(_)
\* TransformerIterator.current_trajindex: return self._it.current_trajindex
current_trajindex(it) ==
    IF it.kind = "mem" THEN it.itraj - 1 ELSE current_trajindex(it._it)

RECURSIVE _n_chunks(_)
\* TransformerIterator._n_chunks: return self._it._n_chunks
_n_chunks(it) ==
    IF it.kind = "mem" THEN DataInMemoryIterator_n_chunks(it) ELSE _n_chunks(it._it)

\* a close that forgets the upstream iterator
close_leaves_upstream_open(it) == it

RECURSIVE close(_)
\* TransformerIterator.close: self._it.close()
close(it) ==
    IF it.kind = "mem" THEN [it EXCEPT !.closed = TRUE]
    ELSE [it EXCEPT !._it = close(it._it)]

----------------------------------------------------------------------------
(* What the collaborators do in one call is drawn by the caller of the     *)
(* action: the outcome of each estimation pass, whether a hook raises in   *)
(* that pass, and the stage (if any) whose _transform_array raises.        *)

PassOutcomes == {"ok", "NotConvergedWarning", "error", "init", "finish"}
\* outcomes after which the pass goes on
Soft == {"ok", "NotConvergedWarning"}

RECURSIVE Chain(_)
\* the stages an iterator over t runs through
Chain(t) ==
    IF t.k # "Transformer" THEN {}
    ELSE {t} \cup Chain(_data_producer[t])

\* the course in which nothing raises
NoFault == [pass |-> [k \in 1..MaxPasses |-> "ok"], map |-> None]

Passes(a, b) == [k \in 1..MaxPasses |-> IF k = 1 THEN a ELSE IF k = 2 THEN b ELSE "ok"]

\* One oracle [pass, map] for each distinguishable course of a call on stage
\* t.  runs: the call reaches the body of estimate; maps: it iterates the
\* stage.  A pass that cannot start (only memory mode starts a second one,
\* and none follows a failed one) is "ok", a hook the class lacks does not
\* raise, and only a stage that is iterated has a mapping to raise.
Courses(t, runs, maps) ==
    LET outs == {x \in PassOutcomes :
                    /\ x = "init" => "_param_init" \in hooks
                    /\ x = "finish" => "_param_finish" \in hooks}
        passes == IF ~runs THEN {Passes("ok", "ok")}
                  ELSE IF ~in_memory[t] THEN {Passes(a, "ok") : a \in outs}
                  ELSE {Passes(a, "ok") : a \in outs \ Soft}
                       \cup {Passes(a, b) : a \in Soft, b \in outs}
        clean == {ps \in passes : \A k \in 1..MaxPasses : ps[k] \in Soft}
        mapping == IF maps \/ (runs /\ in_memory[t]) THEN Chain(t) ELSE {}
    IN {[pass |-> ps, map |-> None] : ps \in passes}
       \cup {[pass |-> ps, map |-> m] : ps \in clean, m \in mapping}

DefaultParams == [skip |-> 0, stride |-> 1, chunk |-> 0]

\* Estimator.estimate (estimation framework): fits on X, may raise
Estimator_estimate(w, t, X, o) ==
    LET w1 == Ev([w EXCEPT !.passes = @ + 1], "Estimator.estimate", t, X)
    IN IF o.pass[w1.passes] = "error" THEN Raise(w1, "EstimationError")
       ELSE IF o.pass[w1.passes] = "NotConvergedWarning"
       THEN Raise(w1, "NotConvergedWarning")
       ELSE w1

RECURSIVE Drain(_, _, _, _)
\* pull chunks until the iterator signals exhaustion
Drain(it, est, fail, acc) ==
    LET r == next_chunk(it, est, fail)
        ev == acc.ev \o r.ev
    IN IF r.sig = "StopIteration" \/ (r.sig = "chunk" /\ r.eos)
       THEN [err |-> "none", ev |-> ev, out |-> acc.out]
       ELSE IF r.sig # "chunk"
       THEN [err |-> r.sig, ev |-> ev, out |-> acc.out]
       ELSE Drain(r.it, est, fail, [ev |-> ev, out |-> acc.out \o r.chunk])

\* DataSource.get_output: iterate the stage itself to exhaustion
DataSource_get_output(w, t, p, o) ==
    LET it == _create_iterator(w, t, p)
    IN IF it.kind = "AttributeError" THEN Raise(w, "AttributeError")
       ELSE LET d == Drain(it, w.est, o.map, [ev |-> <<>>, out |-> <<>>])
            IN [w EXCEPT !.trace = @ \o d.ev, !.err = d.err, !.out = d.out]

RECURSIVE estimate(_, _, _, _)
RECURSIVE get_output(_, _, _, _)

\* DataSource._map_to_memory: get_output under the re-entrancy guard
_map_to_memory(w, t, o) ==
    LET w1 == Ev([w EXCEPT !.active[t] = TRUE], "_map_to_memory", t, None)
        w2 == get_output(w1, t, DefaultParams, o)
    IN [w2 EXCEPT !.active[t] = FALSE]

\* estimate, lines 185-186: the optional pre-estimation hook
_param_init(w, t, o) ==
    IF "_param_init" \notin hooks THEN w
    ELSE LET w1 == Ev(w, "_param_init", t, None)
         IN IF o.pass[w.passes + 1] = "init" THEN Raise(w1, "HookError") ELSE w1

\* an estimate that lets the not-converged signal through
run_estimation_uncaught(w, t, X, o) ==
    IF ~Ok(w) THEN w ELSE Estimator_estimate(w, t, X, o)

\* estimate, lines 188-191: the framework's estimate; not-converged is logged
run_estimation(w, t, X, o) ==
    IF ~Ok(w) THEN w
    ELSE LET w1 == Estimator_estimate(w, t, X, o)
         IN IF w1.err = "NotConvergedWarning"
            THEN Ev([w1 EXCEPT !.err = "none"], "_logger.info", t, X)
            ELSE w1

\* estimate, lines 193-194: the optional post-estimation hook
_param_finish(w, t, o) ==
    IF ~Ok(w) \/ "_param_finish" \notin hooks THEN w
    ELSE LET w1 == Ev(w, "_param_finish", t, None)
         IN IF o.pass[w.passes] = "finish" THEN Raise(w1, "HookError") ELSE w1

\* estimate, lines 197-198: memory mode maps all results
map_results(w, t, o) ==
    IF ~Ok(w) THEN w
    ELSE IF in_memory[t] /\ ~w.active[t] THEN _map_to_memory(w, t, o)
    ELSE w

\* an estimate that also marks the stage it read from
set_estimated_cascading(w, t) ==
    IF ~Ok(w) THEN w
    ELSE IF isinstance_Transformer(w.dp[t])
    THEN [w EXCEPT !.est[t] = TRUE, !.est[w.dp[t]] = TRUE]
    ELSE [w EXCEPT !.est[t] = TRUE]

\* estimate, line 200
set_estimated(w, t) ==
    IF ~Ok(w) THEN w ELSE [w EXCEPT !.est[t] = TRUE]

\* Transformer.estimate
estimate(w, t, X, o) ==
    LET body(w0, X0) ==
            set_estimated(
                map_results(
                    _param_finish(
                        run_estimation(_param_init(w0, t, o), t, X0, o),
                        t, o),
                    t, o),
                t)
    IN IF ~isinstance_Iterable(X)
       THEN IF isinstance_ndarray(X)
            THEN LET w1 == DataInMemory(w, X, chunksize_getter(w, t))
                 IN body(data_producer_setter(w1, t, w1.new), w1.new)
            ELSE Raise(w, "ValueError")
       ELSE body(w, X)

\* Transformer.get_output
get_output(w, t, p, o) ==
    LET w1 == IF ~w.est[t] THEN estimate(w, t, w.dp[t], o) ELSE w
    IN IF ~Ok(w1) THEN w1 ELSE DataSource_get_output(w1, t, p, o)

\* Transformer.fit
fit(w, t, X, o) ==
    LET w1 == _to_data_producer(w, X)
        w2 == data_producer_setter(w1, t, w1.new)
    IN estimate(w2, t, X, o)

\* the rows of a 2-D array, as the frames of one trajectory
Rows(a) == [j \in 1..nframes[a] |-> [traj |-> a.i, idx |-> j - 1, by |-> <<>>]]

\* what the mapping of stage t makes of x: rows mapped one by one for a 2-D
\* array; for any other shape the concrete stage decides (it may raise)
Mapped(t, x) ==
    IF x \in Arrays THEN _transform_array(t, Rows(x))
    ELSE <<[k |-> "undefined", of |-> x, by |-> t]>>

RECURSIVE transform_list(_, _, _, _, _)
\* transform, lines 248-252: for x in X: out.append(self._transform_array(x))
transform_list(w, t, items, i, o) ==
    IF i > Len(items) \/ ~Ok(w) THEN w
    ELSE LET x == items[i]
             w1 == Ev(w, "_transform_array", t, x)
         IN IF x \notin Arrays /\ o.map = t THEN Raise(w1, "MapError")
            ELSE transform_list([w1 EXCEPT !.out = Append(@, Mapped(t, x))],
                                t, items, i + 1, o)

\* a transform that maps the first element of a list in every place
transform_repeats_first(w, t, X, o) ==
    IF isinstance_ndarray(X)
    THEN IF ndim(X) = 2
         THEN [Ev(w, "_transform_array", t, X) EXCEPT !.out = Mapped(t, X)]
         ELSE Raise(w, "TypeError")
    ELSE IF X.k \in {"list", "tuple"}
    THEN transform_list(w, t, [i \in 1..Len(ListItems(X)) |-> ListItems(X)[1]], 1, o)
    ELSE Raise(w, "TypeError")

\* Transformer.transform
transform(w, t, X, o) ==
    IF isinstance_ndarray(X)
    THEN IF ndim(X) = 2
         THEN [Ev(w, "_transform_array", t, X) EXCEPT !.out = Mapped(t, X)]
         ELSE Raise(w, "TypeError")
    ELSE IF X.k \in {"list", "tuple"}
    THEN transform_list(w, t, ListItems(X), 1, o)
    ELSE Raise(w, "TypeError")

\* Transformer.fit_transform
fit_transform(w, t, X, o) ==
    LET w1 == fit(w, t, X, o)
    IN IF ~Ok(w1) THEN w1 ELSE transform(w1, t, X, o)

\* Transformer.parametrize
parametrize(w, t, o) ==
    IF w.dp[t] = None THEN Raise(w, "RuntimeError")
    ELSE estimate(w, t, w.dp[t], o)

----------------------------------------------------------------------------
(* Actions: one per call *)

NoIter == [kind |-> "none"]
Pinned == IF iter = NoIter THEN {} ELSE {Root(iter)}

\* stages that may stand upstream of t (a pipeline is a chain)
Upstream(t) == {s \in Stages : s.i < t.i}

\* the stage the caller works on; T1 is the stage upstream of it, which was
\* left unconfigured, configured on D1 or fitted on D1 beforehand
Callee == {T2}
UpstreamStates ==
    {[dp |-> None, est |-> FALSE], [dp |-> D1, est |-> FALSE],
     [dp |-> D1, est |-> TRUE]}

Observe(w, op, t, arg, o, ret) ==
    [op |-> op, t |-> t, arg |-> arg, o |-> o, err |-> w.err, trace |-> w.trace,
     pre_dp |-> _data_producer[t], pre_est |-> _estimated[t], pre_cs |-> _chunksize,
     ret |-> ret, out |-> w.out]

Commit(w, op, t, arg, o, ret) ==
    /\ _data_producer' = w.dp
    /\ _estimated' = w.est
    /\ _chunksize' = CollectSizes(w)
    /\ wraps' = Collect(w)
    /\ call' = Observe(w, op, t, arg, o, ret)
    /\ UNCHANGED <<in_memory, hooks, nframes, eos_mode, iter, params, delivered,
                   faults, lost>>

SetDataProducer ==
    \E t \in Callee :
      \E dp \in {None, _data_producer[t]} \cup Given \cup Upstream(t) :
        Commit(data_producer_setter(World(Pinned), t, dp), "data_producer", t, dp,
               NoFault, None)

Estimate ==
    \E t \in Callee :
      \E X \in {None, Bad, L1, A1, D1} \cup Upstream(t) :
        \E o \in Courses(t, isinstance_Iterable(X) \/ isinstance_ndarray(X), FALSE) :
        Commit(estimate(World(Pinned), t, X, o), "estimate", t, X, o, None)

Fit ==
    \E t \in Callee :
      \E X \in {L1, A1} \cup Upstream(t) :
        \E o \in Courses(t, isinstance_Iterable(X) \/ isinstance_ndarray(X), FALSE) :
        LET w == fit(World(Pinned), t, X, o)
        IN Commit(w, "fit", t, X, o, IF Ok(w) THEN t ELSE None)

Parametrize ==
    \E t \in Callee :
      \E o \in Courses(t, _data_producer[t] # None, FALSE) :
        Commit(parametrize(World(Pinned), t, o), "parametrize", t, None, o, None)

GetOutput ==
    \E t \in Callee :
      \E o \in Courses(t, ~_estimated[t] /\ _data_producer[t] # None,
                         _estimated[t] \/ _data_producer[t] # None) :
        Commit(get_output(World(Pinned), t, DefaultParams, o), "get_output", t, None,
               o, None)

\* sizes a caller assigns, in halves: -1, -0.5, 0, 0.5, ..., MaxSize + 0.5
HalfSizes == (-2)..(2 * MaxSize + 1)
Number(halves) == [k |-> "number", i |-> halves]
IntValue(n) == [k |-> "int", i |-> n]

\* t.chunksize = size
SetChunksize ==
    \E t \in Callee, halves \in HalfSizes :
        Commit(chunksize_setter(World(Pinned), t, halves), "chunksize.setter", t,
               Number(halves), NoFault, None)

\* m.chunksize = n, on a producer the caller holds
SetProducerChunksize ==
    \E m \in {D1}, n \in 0..MaxSize :
        Commit(chunksize_setter(World(Pinned), m, 2 * n), "producer.chunksize.setter",
               T2, m, NoFault, None)

\* t.chunksize
ReadChunksize ==
    \E t \in Callee :
        LET w == World(Pinned)
        IN Commit(w, "chunksize", t, None, NoFault, IntValue(chunksize_getter(w, t)))

TransformInputs == {A1, V1, C3, L1, Tp, LV, L0, Bad, T1}

\* t.transform(X)
Transform ==
    \E t \in Callee, X \in TransformInputs :
      \E o \in {NoFault} \cup {[NoFault EXCEPT !.map = t] : x \in {X} \cap {LV}} :
        Commit(transform(World(Pinned), t, X, o), "transform", t, X, o, None)

\* t.fit_transform(X)
FitTransform ==
    \E t \in Callee :
      \E X \in {L1, A1} \cup Upstream(t) :
        \E o \in Courses(t, isinstance_Iterable(X) \/ isinstance_ndarray(X), FALSE) :
        Commit(fit_transform(World(Pinned), t, X, o), "fit_transform", t, X, o, None)

AllParams == [skip : 0..MaxSkip, stride : 1..MaxStride, chunk : 0..MaxChunk]

\* it = t._create_iterator(skip, chunk, stride)
CreateIterator(P) ==
    \E t \in Callee, p \in P :
        LET w == World(Pinned)
            it == _create_iterator(w, t, p)
            failed == it.kind = "AttributeError"
        IN /\ iter' = IF failed THEN iter ELSE it
           /\ params' = IF failed THEN params ELSE p
           /\ delivered' = IF failed THEN delivered ELSE <<>>
           /\ faults' = IF failed THEN faults ELSE 0
           /\ lost' = IF failed THEN lost ELSE {}
           /\ call' = Observe(IF failed THEN Raise(w, "AttributeError") ELSE w,
                              "_create_iterator", t, None, NoFault, None)
           /\ wraps' = [m \in Mems |->
                          IF m \in Live(w) \/ (~failed /\ m = Root(it))
                          THEN wraps[m] ELSE None]
           /\ UNCHANGED <<_data_producer, _estimated, _chunksize, in_memory, hooks,
                          nframes, eos_mode>>

\* it.next_chunk()
NextChunk ==
    /\ iter # NoIter
    /\ \E fail \in {None} \cup {t \in IterStages(iter) : faults < MaxFaults} :
        LET r == next_chunk(iter, _estimated, fail)
            yields == r.sig = "chunk" /\ ~r.eos
        IN /\ iter' = r.it
           /\ faults' = IF r.sig = "MapError" THEN faults + 1 ELSE faults
           /\ lost' = IF r.sig = "MapError"
                      THEN LET X == DataInMemoryIterator_next_chunk(Root_it(iter)).chunk
                           IN lost \cup {<<X[j].traj, X[j].idx>> : j \in 1..Len(X)}
                      ELSE lost
           /\ delivered' = IF yields THEN Append(delivered, r.chunk) ELSE delivered
           /\ call' = [op |-> "next_chunk", t |-> iter.src, arg |-> None,
                       o |-> [NoFault EXCEPT !.map = fail],
                       err |-> IF r.sig = "chunk" THEN "none" ELSE r.sig,
                       trace |-> r.ev,
                       pre_dp |-> _data_producer[iter.src],
                       pre_est |-> _estimated[iter.src],
                       pre_cs |-> _chunksize,
                       ret |-> IF r.sig = "chunk" /\ r.eos THEN Sentinel ELSE None,
                       out |-> r.chunk]
    /\ UNCHANGED <<_data_producer, _estimated, _chunksize, wraps, in_memory, hooks,
                   nframes, eos_mode, params>>

\* it.close()
Close ==
    /\ iter # NoIter
    /\ iter' = close(iter)
    /\ call' = [op |-> "close", t |-> iter.src, arg |-> None, o |-> NoFault,
                err |-> "none",
                trace |-> <<>>, pre_dp |-> _data_producer[iter.src],
                pre_est |-> _estimated[iter.src], pre_cs |-> _chunksize,
                ret |-> None, out |-> <<>>]
    /\ UNCHANGED <<_data_producer, _estimated, _chunksize, wraps, in_memory, hooks,
                   nframes, eos_mode, params, delivered, faults, lost>>

----------------------------------------------------------------------------
(* Specifications *)

\* the state after construction (__init__): no producer, not estimated
Constructed(U) ==
    /\ \E u \in U :
         /\ _data_producer = [t \in Stages |-> IF t = T1 THEN u.dp ELSE None]
         /\ _estimated = [t \in Stages |-> t = T1 /\ u.est]
    /\ _chunksize = [x \in Stages \cup Mems |->
                       IF x \in Stages THEN DefaultChunksize ELSE DataInMemoryChunksize]
    /\ wraps = [m \in Mems |-> IF m = D1 THEN L1 ELSE IF m = D2 THEN A2 ELSE None]
    /\ iter = NoIter
    /\ params = DefaultParams
    /\ delivered = <<>>
    /\ faults = 0
    /\ lost = {}
    /\ call = [op |-> "__init__", t |-> T2, arg |-> None, o |-> NoFault,
               err |-> "none",
               trace |-> <<>>, pre_dp |-> None, pre_est |-> FALSE,
               pre_cs |-> _chunksize, ret |-> None, out |-> <<>>]

\* the life cycle of the stages, on one small dataset
Init ==
    /\ Constructed(UpstreamStates)
    /\ in_memory \in {[t \in Stages |-> t = T2 /\ b] : b \in BOOLEAN}
    /\ hooks \in {{}, {"_param_init", "_param_finish"}}
    /\ nframes = [a \in Arrays |-> a.i]
    /\ eos_mode = "raise"

Next ==
    \/ SetDataProducer
    \/ Estimate
    \/ Fit
    \/ Parametrize
    \/ GetOutput

Spec == Init /\ [][Next]_vars

\* iteration, over every dataset and every (skip, stride, chunksize)
InitIter ==
    /\ Constructed({u \in UpstreamStates : ~u.est})
    /\ in_memory = [t \in Stages |-> FALSE]
    /\ hooks = {}
    /\ nframes \in [Arrays -> 0..MaxLen]
    /\ eos_mode \in {"raise", "sentinel"}

\* the caller configures the pipeline, then iterates it
NextIter ==
    \/ (iter = NoIter /\ SetDataProducer)
    \/ (iter = NoIter /\ CreateIterator(AllParams))
    \/ NextChunk
    \/ Close

SpecIter == InitIter /\ [][NextIter]_vars

\* the eager path and the chunksize property
InitEager ==
    /\ Constructed({u \in UpstreamStates : u.dp # None /\ ~u.est})
    /\ in_memory = [t \in Stages |-> FALSE]
    /\ hooks = {}
    /\ nframes = [a \in Arrays |-> a.i]
    /\ eos_mode = "raise"

NextEager ==
    \/ SetDataProducer
    \/ SetChunksize
    \/ SetProducerChunksize
    \/ ReadChunksize
    \/ Transform
    \/ FitTransform

SpecEager == InitEager /\ [][NextEager]_vars

----------------------------------------------------------------------------
(* Properties *)

EstimateOps == {"estimate", "fit", "parametrize", "get_output"}

\* indices of the events e of stage t in the last call
Events(c, e, t) == {i \in 1..Len(c.trace) : c.trace[i].e = e /\ c.trace[i].t = t}

\* C1: assigning data_producer = dp leaves _estimated false when dp is not
\* (by identity) the held producer, leaves _estimated as it was when dp is the
\* held producer, and in both cases the held producer afterwards is dp.
C1_SetterResetsOnIdentityChange ==
    call.op = "data_producer" =>
        /\ _data_producer[call.t] = call.arg
        /\ call.arg # call.pre_dp => ~_estimated[call.t]
        /\ call.arg = call.pre_dp => _estimated[call.t] = call.pre_est

\* an estimated stage was assigned the producer it already held, and is
\* still estimated
C1_Witness ==
    /\ call.op = "data_producer"
    /\ call.arg = call.pre_dp
    /\ call.arg # None
    /\ call.pre_est
    /\ _estimated[call.t]

\* C2: no stage's per-chunk mapping _transform_array is applied (by
\* get_output or by an iterator created from the stage) while that stage's
\* _estimated flag is false.
C2_NoMappingBeforeEstimated ==
    \A i \in 1..Len(call.trace) :
        call.trace[i].e = "_transform_array" => call.trace[i].est

\* C3: get_output on a stage that is not estimated runs exactly one
\* estimation pass and returns with _estimated true, in memory mode or not;
\* on an estimated stage it runs none.
C3_GetOutputEstimatesOnce ==
    call.op = "get_output" /\ call.err = "none" =>
        /\ _estimated[call.t]
        /\ Cardinality(Events(call, "Estimator.estimate", call.t))
             = IF call.pre_est THEN 0 ELSE 1

\* C4: whenever estimate or fit fails, _estimated is false afterwards,
\* whatever the state before the call (stated for a stage that is not in
\* memory mode, where the failed call is the only estimate that ran).
C4_FailedEstimateLeavesNotEstimated ==
    /\ call.op \in {"estimate", "fit"}
    /\ call.err # "none"
    /\ ~in_memory[call.t]
    => ~_estimated[call.t]

RECURSIVE Grounded(_)
\* the chain of producers below x ends in an in-memory dataset
Grounded(x) ==
    \/ x.k = "DataInMemory"
    \/ x.k = "Transformer" /\ Grounded(_data_producer[x])

\* C5: when the estimation framework raises the not-converged signal during
\* estimate (called directly or through fit, parametrize, get_output), the
\* signal is caught and logged, not propagated; the post-estimation hook (and
\* the in-memory mapping when configured) still run, and unless one of those
\* raises the call returns with _estimated true.
C5_NotConvergedIsRecoverable ==
    LET t == call.t
        caught == Events(call, "_logger.info", t)
        ran == Cardinality(Events(call, "Estimator.estimate", t))
        \* the passes in which the framework raised the signal
        raised == {k \in 1..MaxPasses :
                     k <= ran /\ call.o.pass[k] = "NotConvergedWarning"}
    IN call.op \in EstimateOps /\ raised # {} =>
        /\ Cardinality(caught) = Cardinality(raised)
        /\ call.err # "NotConvergedWarning"
        \* the pass goes on with the post-estimation hook
        /\ "_param_finish" \in hooks =>
             \A i \in caught :
                 /\ i < Len(call.trace)
                 /\ call.trace[i + 1].e = "_param_finish"
                 /\ call.trace[i + 1].t = t
        \* and, in memory mode, with the mapping (once: the guard)
        /\ (in_memory[t] /\ \A k \in 1..MaxPasses : call.o.pass[k] \in Soft) =>
             Cardinality(Events(call, "_map_to_memory", t)) = 1
        \* nothing else raising (the in-memory mapping and get_output iterate
        \* the stage, so they need producers down to the data), the call returns
        /\ (/\ \A k \in 1..MaxPasses : call.o.pass[k] \in Soft
            /\ call.o.map = None
            /\ (in_memory[t] \/ call.op = "get_output") => Grounded(t)) =>
             call.err = "none"
        /\ call.err = "none" => _estimated[t]

\* estimate caught the signal in memory mode with both hooks, and returned
C5_Witness ==
    /\ call.op = "estimate"
    /\ Events(call, "_logger.info", call.t) # {}
    /\ in_memory[call.t]
    /\ "_param_finish" \in hooks
    /\ call.err = "none"
    /\ _estimated[call.t]

\* C6: fit(X), for X a pipeline stage, a 2-D array or a list of 2-D arrays,
\* leaves the producer of X (X itself, or an in-memory producer wrapping X) as
\* data_producer, returns the stage itself and leaves it estimated.
C6_FitConfiguresAndEstimates ==
    /\ call.op = "fit"
    /\ call.o = NoFault
    /\ isinstance_Transformer(call.arg) => _data_producer[call.arg] # None
    => /\ call.err = "none"
       /\ call.ret = call.t
       /\ _estimated[call.t]
       /\ IF isinstance_Transformer(call.arg)
          THEN _data_producer[call.t] = call.arg
          ELSE /\ _data_producer[call.t] \in Mems
               /\ wraps[_data_producer[call.t]] = call.arg

\* C7: on a stage whose data_producer is null, parametrize, estimate on the
\* configured producer and get_output fail with a configuration / usage error
\* without running the estimation framework or the mapping, and leave
\* _estimated false and data_producer null.
C7_UnconfiguredCallsFail ==
    /\ \/ call.op \in {"parametrize", "get_output"}
       \/ call.op = "estimate" /\ call.arg = None
    /\ call.pre_dp = None
    => /\ call.err \in {"RuntimeError", "ValueError"}
       /\ \A i \in 1..Len(call.trace) :
            call.trace[i].e \notin {"Estimator.estimate", "_transform_array"}
       /\ ~_estimated[call.t]
       /\ _data_producer[call.t] = None

\* C8: the stage is Unconfigured, Configured-NotEstimated or Estimated:
\* _estimated is never true while data_producer is null.
C8_EstimatedImpliesConfigured ==
    \A t \in Stages : _estimated[t] => _data_producer[t] # None

RECURSIVE Origin(_)
\* the in-memory dataset a chain of stages reads
Origin(x) == IF x.k = "DataInMemory" THEN x ELSE Origin(_data_producer[x])

RECURSIVE Mappers(_)
\* the stages of a chain, the one next to the data first
Mappers(x) ==
    IF x.k = "DataInMemory" THEN <<>> ELSE Append(Mappers(_data_producer[x]), x)

RECURSIVE Flat(_)
\* the chunks of a sequence, concatenated
Flat(cs) == IF cs = <<>> THEN <<>> ELSE Head(cs) \o Flat(Tail(cs))

\* the rows of a trajectory of L frames that (skip, stride) select
Selected(L, p) == {i \in 0..(L - 1) : i >= p.skip /\ (i - p.skip) % p.stride = 0}

\* the strided / skipped length of a trajectory of L frames
StridedLength(L, p) ==
    IF L > p.skip THEN (L - p.skip + p.stride - 1) \div p.stride ELSE 0

Key(f) == <<f.traj, f.idx>>
Before(a, b) == a[1] < b[1] \/ (a[1] = b[1] /\ a[2] < b[2])

\* the last call was a next_chunk that signalled the end of the sequence
Signalled ==
    call.op = "next_chunk" /\ (call.err = "StopIteration" \/ call.ret = Sentinel)

\* C9: the chunks pulled from a fresh iterator (no mapping having raised)
\* come in increasing trajectory, then increasing position; each is one
\* upstream chunk mapped by every stage of the chain, of at most chunksize
\* frames when chunksize > 0; no selected frame is skipped or repeated, and at
\* exhaustion each trajectory's row counts sum to its strided/skipped length.
C9_ChunksReconstructStridedData ==
    (iter # NoIter /\ faults = 0) =>
        LET items == ListItems(wraps[Origin(iter.src)])
            valid == UNION {{<<j, i>> : i \in Selected(nframes[items[j]], params)} :
                              j \in 1..Len(items)}
            flat == Flat(delivered)
            got == {Key(flat[k]) : k \in 1..Len(flat)}
        IN /\ \A c \in 1..Len(delivered) :
                /\ params.chunk > 0 => Len(delivered[c]) <= params.chunk
                /\ \A k \in 1..Len(delivered[c]) :
                     /\ delivered[c][k].by = Mappers(iter.src)
                     /\ delivered[c][k].traj = delivered[c][1].traj
           /\ \A a, b \in 1..Len(flat) : a < b => Before(Key(flat[a]), Key(flat[b]))
           /\ got \subseteq valid
           /\ \A v \in valid : \A g \in got : Before(v, g) => v \in got
           /\ Signalled =>
                /\ got = valid
                /\ \A j \in 1..Len(items) :
                     Cardinality({k \in 1..Len(flat) : flat[k].traj = j})
                       = StridedLength(nframes[items[j]], params)

\* a two-stage chain over two trajectories, pulled to exhaustion with stride
\* 2 in chunks of one frame
C9_Witness ==
    /\ iter # NoIter
    /\ faults = 0
    /\ Signalled
    /\ params.stride = 2
    /\ params.chunk = 1
    /\ Len(Mappers(iter.src)) = 2
    /\ Len(delivered) >= 3
    /\ \E a, b \in 1..Len(Flat(delivered)) :
         Flat(delivered)[a].traj # Flat(delivered)[b].traj

\* the upstream has handed out its last chunk
Exhausted(it) == Root_it(it).itraj > Len(Root_it(it).lens)

\* the mapping of stage t was applied to the end-of-sequence value
MappedSentinel(c, t) ==
    \E i \in 1..Len(c.trace) :
        /\ c.trace[i].e = "_transform_array"
        /\ c.trace[i].t = t
        /\ c.trace[i].x = Sentinel

\* C10 (as the spec states it): the end-of-sequence value of the upstream,
\* exhaustion signal or empty/sentinel result, is propagated without the
\* per-chunk mapping being applied to it.
C10_EndOfSequenceNotMapped ==
    call.op = "next_chunk" => \A t \in Stages : ~MappedSentinel(call, t)

C10_Step ==
    LET c == call'
    IN (iter # NoIter /\ c.op = "next_chunk") =>
        \* a raised exhaustion signal comes through as it is, nothing mapped
        /\ c.err = "StopIteration" =>
             /\ c.trace = <<>>
             /\ c.out = <<>>
             /\ delivered' = delivered
        \* an empty/sentinel result goes through every stage's mapping
        /\ c.ret = Sentinel =>
             /\ \A t \in IterStages(iter) : MappedSentinel(c, t)
             /\ delivered' = delivered
        \* one pass: past the end there is no chunk any more
        /\ Exhausted(iter) =>
             /\ Exhausted(iter')
             /\ delivered' = delivered
             /\ c.err \in {"StopIteration", "MapError"} \/ c.ret = Sentinel
             /\ eos_mode = "raise" => c.err = "StopIteration"
        /\ (c.err = "StopIteration" \/ c.ret = Sentinel) => Exhausted(iter)

\* C10 (amended): an exhaustion signal raised by the upstream is propagated
\* unchanged and unmapped; an empty/sentinel result is passed through the
\* mapping like any chunk; once the upstream is exhausted no later next_chunk
\* yields a chunk, and with a raising upstream each one raises the signal again.
C10_EndOfSequencePropagates == [][C10_Step]_vars

\* after the data was handed out, next_chunk got the upstream's sentinel
\* result and both stages of the chain mapped it
C10_Witness ==
    /\ iter # NoIter
    /\ Exhausted(iter)
    /\ call.op = "next_chunk"
    /\ call.ret = Sentinel
    /\ MappedSentinel(call, T1)
    /\ MappedSentinel(call, T2)
    /\ Flat(delivered) # <<>>

RECURSIVE Synced(_)
\* at every level the cursor of an iterator is that of its upstream
Synced(it) ==
    \/ it.kind = "mem"
    \/ /\ it.state = it._it.state
       /\ current_trajindex(it) = current_trajindex(it._it)
       /\ _n_chunks(it) = _n_chunks(it._it)
       /\ Synced(it._it)

\* the position of the upstream end
Cursor(it) == <<Root_it(it).itraj, Root_it(it).pos>>

C11_Step ==
    /\ iter' # NoIter => Synced(iter')
    /\ (iter # NoIter /\ iter' # NoIter) =>
         \* no call swaps the cursor object or the stage
         /\ iter'.state = iter.state
         /\ iter'.src = iter.src
         /\ _n_chunks(iter') = _n_chunks(iter)
         \* next_chunk advances the upstream end exactly once
         /\ call'.op = "next_chunk" =>
              Root_it(iter') = DataInMemoryIterator_next_chunk(Root_it(iter)).it
         \* close moves nothing
         /\ call'.op = "close" => Cursor(iter') = Cursor(iter)

\* C11: from its construction on, the cursor of a Transformer Iterator
\* (current trajectory index, number of chunks, cursor state) is the cursor of
\* its upstream iterator; each next_chunk advances the upstream exactly once
\* and close does not move it.
C11_CursorFollowsUpstream == [][C11_Step]_vars

\* a two-stage chain, pulled into its second trajectory
C11_Witness ==
    /\ iter # NoIter
    /\ call.op = "next_chunk"
    /\ Len(Mappers(iter.src)) = 2
    /\ current_trajindex(iter) = 1
    /\ Cursor(iter)[2] > params.skip
    /\ Len(delivered) >= 2
    /\ _n_chunks(iter) >= 3

C12_Step ==
    /\ (iter = NoIter /\ iter' # NoIter) => ~Root_it(iter').closed
    /\ (iter # NoIter /\ iter' # NoIter) =>
         /\ call'.op = "next_chunk" =>
              \* a failing mapping comes out of next_chunk
              /\ (/\ call'.o.map # None
                  /\ DataInMemoryIterator_next_chunk(Root_it(iter)).sig = "chunk")
                 => call'.err = "MapError"
              \* and next_chunk, however it ends, releases nothing
              /\ Root_it(iter').closed = Root_it(iter).closed
         \* close closes the upstream, whatever happened before
         /\ call'.op = "close" => Root_it(iter').closed

\* C12: a failure of the per-chunk mapping propagates out of next_chunk and
\* leaves the upstream iterator open; the upstream is closed by close(), and
\* after close() it is closed on every path (exhaustion, mapping error, early
\* abandonment).
C12_UpstreamHeldUntilClose == [][C12_Step]_vars

\* the mapping failed, data was left, and the caller closed the iterator
C12_Witness ==
    /\ iter # NoIter
    /\ call.op = "close"
    /\ faults > 0
    /\ ~Exhausted(iter)
    /\ Root_it(iter).closed

C13_Step ==
    call'.t = T2 =>
        /\ _estimated'[T1] = _estimated[T1]
        /\ _data_producer'[T1] = _data_producer[T1]

\* C13: no call on the downstream stage T2 (data_producer assignment,
\* estimate, fit, parametrize, get_output with the iteration it runs) changes
\* the _estimated flag or the data_producer of the upstream stage T1:
\* estimation is not cascaded upstream.
C13_UpstreamUntouched == [][C13_Step]_vars

\* T2 reads from an un-estimated T1 and has produced output
C13_Witness ==
    /\ call.op = "get_output"
    /\ call.t = T2
    /\ call.err = "none"
    /\ call.out # <<>>
    /\ _data_producer[T2] = T1
    /\ _estimated[T2]
    /\ ~_estimated[T1]
    /\ _data_producer[T1] = D1

\* C14: reading the chunksize of a configured Transformer returns the
\* current chunksize of its data producer (after the Transformer's chunksize
\* was set, after the producer's was changed, after the producer was replaced).
C14_ChunksizeReadsProducer ==
    (call.op = "chunksize" /\ _data_producer[call.t] \in Mems) =>
        call.ret.i = _chunksize[_data_producer[call.t]]

\* C15: setting the chunksize to a non-negative integer n sets the
\* producer's chunksize to n; any other value (negative, non-integer) fails
\* with a validation error and leaves the producer's chunksize as it was.
C15_ChunksizeSetterValidates ==
    (call.op = "chunksize.setter" /\ call.pre_dp \in Mems) =>
        LET halves == call.arg.i
            m == call.pre_dp
        IN IF halves >= 0 /\ halves % 2 = 0
           THEN call.err = "none" /\ _chunksize[m] = halves \div 2
           ELSE call.err = "ValueError" /\ _chunksize[m] = call.pre_cs[m]

\* the frames the mapping of stage t makes of the 2-D array a
Expected(t, a) ==
    [j \in 1..nframes[a] |-> [traj |-> a.i, idx |-> j - 1, by |-> <<t>>]]

\* C16: fit_transform(X), for X a pipeline stage, a 2-D array or a list of
\* 2-D arrays (nothing failing in the estimation), returns the mapped X and
\* leaves the stage estimated with the producer of X as data_producer.
C16_FitTransformIsFitThenTransform ==
    /\ call.op = "fit_transform"
    /\ call.o = NoFault
    /\ isinstance_Transformer(call.arg) => Grounded(call.arg)
    => /\ call.err = "none"
       /\ _estimated[call.t]
       /\ IF isinstance_Transformer(call.arg)
          THEN _data_producer[call.t] = call.arg
          ELSE /\ _data_producer[call.t] \in Mems
               /\ wraps[_data_producer[call.t]] = call.arg
       /\ call.arg \in Arrays => call.out = Expected(call.t, call.arg)
       /\ call.arg.k = "list" =>
            call.out = [i \in 1..Len(ListItems(call.arg)) |->
                          Expected(call.t, ListItems(call.arg)[i])]

\* C17: transform on a list or tuple of 2-D arrays returns a list of the
\* same length whose element i is the mapping of input element i alone, rows
\* and order kept; no transform call changes _estimated or data_producer.
C17_TransformMapsEachElement ==
    call.op = "transform" =>
        /\ _data_producer[call.t] = call.pre_dp
        /\ _estimated[call.t] = call.pre_est
        /\ (/\ call.arg.k \in {"list", "tuple"}
            /\ \A i \in 1..Len(ListItems(call.arg)) : ListItems(call.arg)[i] \in Arrays)
           => LET items == ListItems(call.arg)
              IN /\ call.err = "none"
                 /\ Len(call.out) = Len(items)
                 /\ \A i \in 1..Len(items) :
                      /\ Len(call.out[i]) = nframes[items[i]]
                      /\ call.out[i] = Expected(call.t, items[i])

\* a tuple of three arrays of different row counts was mapped
C17_Witness ==
    /\ call.op = "transform"
    /\ call.arg = Tp
    /\ call.err = "none"
    /\ Len(call.out) = 3
    /\ Len(call.out[1]) # Len(call.out[2])

\* an input transform has to refuse
BadShape(X) ==
    IF isinstance_ndarray(X) THEN ndim(X) # 2
    ELSE IF X.k \in {"list", "tuple"}
    THEN \E i \in 1..Len(ListItems(X)) :
            ~isinstance_ndarray(ListItems(X)[i]) \/ ndim(ListItems(X)[i]) # 2
    ELSE TRUE

\* C18: transform raises a type/shape error for every input that is not a
\* 2-D array or a list/tuple of 2-D arrays (a 1-D or 3-D array, also as an
\* element of a list; a non-array, non-list input), the mapping is applied to
\* no ill-shaped array, and _estimated and data_producer stay as they were.
C18_TransformRejectsBadInput ==
    (call.op = "transform" /\ BadShape(call.arg)) =>
        /\ call.err = "TypeError"
        /\ \A i \in 1..Len(call.trace) :
             call.trace[i].e = "_transform_array" => call.trace[i].x \in Arrays
        /\ _data_producer[call.t] = call.pre_dp
        /\ _estimated[call.t] = call.pre_est

\* C19: whenever estimate(X) returns with _estimated true, the producer
\* each estimation pass ran on is (by identity) the data_producer the stage
\* holds, for X a raw array as for X a producer passed directly.
C19_EstimatesOnHeldProducer ==
    (call.op = "estimate" /\ call.err = "none" /\ _estimated[call.t]) =>
        \A i \in Events(call, "Estimator.estimate", call.t) :
            call.trace[i].x = _data_producer[call.t]

\* C20: the frames of a chunk whose mapping failed are gone: the upstream
\* has moved past them, later next_chunk calls go on with what follows, and
\* the sequence the iterator delivers up to exhaustion is the selected frames
\* without those of the failed chunks, still in order.
C20_FailedChunkIsSkipped ==
    iter # NoIter =>
        LET items == ListItems(wraps[Origin(iter.src)])
            valid == UNION {{<<j, i>> : i \in Selected(nframes[items[j]], params)} :
                              j \in 1..Len(items)}
            flat == Flat(delivered)
            got == {Key(flat[k]) : k \in 1..Len(flat)}
        IN /\ lost \subseteq valid
           /\ lost \cap got = {}
           /\ \A a, b \in 1..Len(flat) : a < b => Before(Key(flat[a]), Key(flat[b]))
           \* what was pulled so far is what was delivered or lost
           /\ \A v \in valid :
                Before(v, Cursor(iter)) <=> v \in got \cup lost
           /\ (call.op = "next_chunk" /\ call.err = "MapError") => call.out = <<>>
           /\ Signalled => got = valid \ lost

\* a chunk in the middle failed; the iterator went on to exhaustion and
\* delivered frames before and after the lost ones
C20_Witness ==
    /\ iter # NoIter
    /\ faults = 1
    /\ Signalled
    /\ \E l \in lost :
         /\ \E k \in 1..Len(Flat(delivered)) : Before(Key(Flat(delivered)[k]), l)
         /\ \E k \in 1..Len(Flat(delivered)) : Before(l, Key(Flat(delivered)[k]))

====
